---- MODULE Spec2Model ----
(***************************************************************************)
(* Model of the Foundry MaaS proxy (src/app.py): the <think>...</think>    *)
(* filters (strip_think_tags, StreamingThinkFilter) and the streaming      *)
(* response generator of _handle_streaming.                                *)
(*                                                                         *)
(* Text is a sequence of one-character strings.                            *)
(***************************************************************************)
EXTENDS Integers, Sequences, FiniteSets, TLC

VARIABLES
    text,          \* the input text drawn for the filter under test
    pos,           \* number of characters of text already fed to process_text
    flt,           \* the StreamingThinkFilter object under test
    out,           \* concatenation of the strings returned so far
    outpos,        \* for each character of out, its position in text
    phase,         \* "feeding" | "flushed" | "whole" | "strip" | "stream" | "idle"
    passes,        \* results of successive applications of a filter to text
    EXPECTED_API_KEY, \* the configured shared secret ("" when not configured)
    active,        \* the ids of the chat requests in flight
    rq             \* per request: its inputs, position, response and stream

fvars == <<text, pos, flt, out, outpos, phase, passes>>

svars == <<EXPECTED_API_KEY, active, rq>>

vars == <<text, pos, flt, out, outpos, phase, passes, EXPECTED_API_KEY, active, rq>>

\* ------------------------------------------------------------------ bounds

\* Number of tokens a drawn text is built from.
MaxTokens == 4

\* Number of upstream lines a stream delivers before it ends.
MaxLines == 3

\* Number of times a filter is applied to its own result.
MaxPasses == 2

\* Number of content lines each of two concurrent streams delivers.
MaxStreamLines == 2

\* ----------------------------------------------------------------- strings

OPEN == <<"<", "t", "h", "i", "n", "k", ">">>

CLOSE == <<"<", "/", "t", "h", "i", "n", "k", ">">>

\* s.startswith(p)
StartsWith(s, p) == Len(p) <= Len(s) /\ SubSeq(s, 1, Len(p)) = p

\* d occurs in s at position i (1-based)
OccursAt(s, d, i) ==
    /\ i >= 1
    /\ i + Len(d) - 1 <= Len(s)
    /\ SubSeq(s, i, i + Len(d) - 1) = d

\* <<a, a+1, ..., b>>
Range(a, b) == [k \in 1..(b - a + 1) |-> a + k - 1]

RECURSIVE Concat(_)
Concat(ss) == IF ss = <<>> THEN <<>> ELSE Head(ss) \o Concat(Tail(ss))

\* ------------------------------------------------- StreamingThinkFilter

\* StreamingThinkFilter.__init__
NewFilter == [inside_think |-> FALSE, buffer |-> <<>>, tag_buffer |-> <<>>]

\* A variant of the outside branch that emits a failed candidate and keeps it
OutsideStep_keeps_candidate(w, c, p) ==
    IF c = "<"
    THEN [w EXCEPT !.tag_buffer = Append(@, c)]
    ELSE IF w.tag_buffer # <<>>
    THEN LET tb == Append(w.tag_buffer, c) IN
         IF tb = OPEN
         THEN [w EXCEPT !.inside_think = TRUE, !.tag_buffer = <<>>]
         ELSE IF ~StartsWith(OPEN, tb)
         THEN [w EXCEPT !.output = @ \o tb,
                        !.outpos = @ \o Range(p - Len(tb) + 1, p),
                        !.tag_buffer = tb]
         ELSE [w EXCEPT !.tag_buffer = tb]
    ELSE [w EXCEPT !.output = Append(@, c), !.outpos = Append(@, p)]

\* One iteration of the while loop with `not self.inside_think`.
\* w carries self.inside_think, self.tag_buffer and the local `output`;
\* outpos records, for each character of output, its position p in the input.
OutsideStep(w, c, p) ==
    IF c = "<"
    THEN [w EXCEPT !.tag_buffer = Append(@, c)]
    ELSE IF w.tag_buffer # <<>>
    THEN LET tb == Append(w.tag_buffer, c) IN
         IF tb = OPEN
         THEN [w EXCEPT !.inside_think = TRUE, !.tag_buffer = <<>>]
         ELSE IF ~StartsWith(OPEN, tb)
         THEN [w EXCEPT !.output = @ \o tb,
                        !.outpos = @ \o Range(p - Len(tb) + 1, p),
                        !.tag_buffer = <<>>]
         ELSE [w EXCEPT !.tag_buffer = tb]
    ELSE [w EXCEPT !.output = Append(@, c), !.outpos = Append(@, p)]

\* One iteration of the while loop with `self.inside_think`.
InsideStep(w, c, p) ==
    IF c = "<"
    THEN [w EXCEPT !.tag_buffer = Append(@, c)]
    ELSE IF w.tag_buffer # <<>>
    THEN LET tb == Append(w.tag_buffer, c) IN
         IF tb = CLOSE
         THEN [w EXCEPT !.inside_think = FALSE, !.tag_buffer = <<>>]
         ELSE IF ~StartsWith(CLOSE, tb)
         THEN [w EXCEPT !.tag_buffer = <<>>]
         ELSE [w EXCEPT !.tag_buffer = tb]
    ELSE w

LoopStep(w, c, p) ==
    IF ~w.inside_think THEN OutsideStep(w, c, p) ELSE InsideStep(w, c, p)

\* The while loop over t[i..j], left to right.  The range is split in halves
\* and the first half is evaluated before the second is entered (the test on
\* DOMAIN is always true), which keeps the evaluation shallow.
RECURSIVE Loop(_, _, _, _, _)
Loop(w, t, i, j, base) ==
    IF i > j THEN w
    ELSE IF i = j THEN LoopStep(w, t[i], base + i)
    ELSE LET mid == (i + j) \div 2
             first == Loop(w, t, i, mid, base)
         IN  IF DOMAIN first # {} THEN Loop(first, t, mid + 1, j, base) ELSE first

\* A variant of process_text whose candidate is local to the call.
process_text_local(self, t, base) ==
    Loop([inside_think |-> self.inside_think, tag_buffer |-> <<>>,
          buffer |-> self.buffer, output |-> <<>>, outpos |-> <<>>], t, 1, Len(t), base)

\* StreamingThinkFilter.process_text(text): the fields of self after the
\* call, with the returned string in .output.  base is the number of
\* characters fed to this filter by earlier calls.
process_text(self, t, base) ==
    Loop([inside_think |-> self.inside_think, tag_buffer |-> self.tag_buffer,
          buffer |-> self.buffer, output |-> <<>>, outpos |-> <<>>], t, 1, Len(t), base)

\* A variant of flush that returns nothing and keeps the candidate
flush_keeps_candidate(self, base) ==
    [inside_think |-> self.inside_think, tag_buffer |-> self.tag_buffer,
     buffer |-> self.buffer, output |-> <<>>, outpos |-> <<>>]

\* A variant of flush that returns the candidate whatever inside_think is
flush_ignores_inside(self, base) ==
    [inside_think |-> self.inside_think, tag_buffer |-> <<>>,
     buffer |-> self.buffer, output |-> self.tag_buffer,
     outpos |-> Range(base - Len(self.tag_buffer) + 1, base)]

\* StreamingThinkFilter.flush(): the fields of self after the call, with
\* the returned string in .output.  base as for process_text.
flush(self, base) ==
    IF self.tag_buffer # <<>> /\ ~self.inside_think
    THEN [inside_think |-> self.inside_think, tag_buffer |-> <<>>,
          buffer |-> self.buffer, output |-> self.tag_buffer,
          outpos |-> Range(base - Len(self.tag_buffer) + 1, base)]
    ELSE [inside_think |-> self.inside_think, tag_buffer |-> self.tag_buffer,
          buffer |-> self.buffer, output |-> <<>>, outpos |-> <<>>]

\* The object left by a call
Self(r) == [inside_think |-> r.inside_think, buffer |-> r.buffer,
            tag_buffer |-> r.tag_buffer]

\* ------------------------------------------------------ strip_think_tags

Whitespace == {" ", "\n", "\t"}

\* The least element of a non-empty set of numbers
Min(S) == CHOOSE x \in S : \A y \in S : x <= y

\* Least j >= i at which d occurs in s, or 0.
Find(s, d, i) ==
    LET at == {k \in i..(Len(s) - Len(d) + 1) : OccursAt(s, d, k)} IN
    IF at = {} THEN 0 ELSE Min(at)

\* The characters of s at the positions in K, in order
Keep(s, K) ==
    [n \in 1..Cardinality(K) |-> s[CHOOSE k \in K : Cardinality({j \in K : j <= k}) = n]]

\* THINK_PATTERN.sub("", text) from position i on: leftmost, non-greedy,
\* non-overlapping matches of <think>.*?</think> with DOTALL.
RECURSIVE PatternSub(_, _)
PatternSub(s, i) ==
    LET starts == {k \in i..Len(s) :
                      OccursAt(s, OPEN, k) /\ Find(s, CLOSE, k + Len(OPEN)) # 0}
    IN  IF starts = {} THEN SubSeq(s, i, Len(s))
        ELSE LET k == Min(starts)
                 j == Find(s, CLOSE, k + Len(OPEN))
             IN  SubSeq(s, i, k - 1) \o PatternSub(s, j + Len(CLOSE))

\* A variant that removes the first match only (count=1)
THINK_PATTERN_sub_first(s) ==
    LET starts == {i \in 1..Len(s) : OccursAt(s, OPEN, i) /\ Find(s, CLOSE, i + Len(OPEN)) # 0} IN
    IF starts = {} THEN s
    ELSE LET i == Min(starts)
             j == Find(s, CLOSE, i + Len(OPEN))
         IN  SubSeq(s, 1, i - 1) \o SubSeq(s, j + Len(CLOSE), Len(s))

THINK_PATTERN_sub(s) == PatternSub(s, 1)

\* A variant that collapses runs of spaces and leaves newlines alone
CollapseSpaces(s) ==
    Keep(s, {i \in 1..Len(s) : ~(s[i] = " " /\ i >= 2 /\ s[i - 1] = " ")})

\* re.sub(r"\n{3,}", "\n\n", s): of each run of three or more newlines the
\* first two are kept
CollapseNewlines(s) ==
    Keep(s, {i \in 1..Len(s) :
                ~(s[i] = "\n" /\ i >= 3 /\ s[i - 1] = "\n" /\ s[i - 2] = "\n")})

\* str.strip()
Strip(s) ==
    LET solid == {i \in 1..Len(s) : s[i] \notin Whitespace} IN
    IF solid = {} THEN <<>>
    ELSE SubSeq(s, Min(solid), CHOOSE x \in solid : \A y \in solid : y <= x)

strip_think_tags(s) == Strip(CollapseNewlines(THINK_PATTERN_sub(s)))

\* A fresh StreamingThinkFilter fed s in one call, then flushed: all it returns
StreamAll(s) ==
    LET r == process_text(NewFilter, s, 0) IN r.output \o flush(Self(r), Len(s)).output

\* ------------------------------------------------------------- inputs

Tokens == {OPEN, CLOSE, <<"<">>, <<"t">>, <<" ">>}

\* Scenario B of the specification: "<think>reasoning</think> answer"
ScenarioB ==
    OPEN \o <<"r", "e", "a", "s", "o", "n", "i", "n", "g">> \o CLOSE
         \o <<" ", "a", "n", "s", "w", "e", "r">>

TokenSeqs == UNION {[1..n -> Tokens] : n \in 0..MaxTokens}

Texts == {Concat(ts) : ts \in TokenSeqs} \cup {ScenarioB}

\* The input fed so far
Consumed == SubSeq(text, 1, pos)

\* -------------------------------------------------- the filter, fed in fragments

InitFilter ==
    /\ text \in Texts
    /\ pos = 0
    /\ flt = NewFilter
    /\ out = <<>>
    /\ outpos = <<>>
    /\ phase = "feeding"
    /\ passes = <<>>
    /\ EXPECTED_API_KEY = <<>>
    /\ active = {}
    /\ rq = <<>>

\* think_filter.process_text(fragment) on the next k characters of text
Feed ==
    /\ phase = "feeding"
    /\ \E k \in 1..(Len(text) - pos) :
         LET r == process_text(flt, SubSeq(text, pos + 1, pos + k), pos) IN
         /\ flt' = Self(r)
         /\ out' = out \o r.output
         /\ outpos' = outpos \o r.outpos
         /\ pos' = pos + k
    /\ UNCHANGED <<text, phase, passes, svars>>

\* think_filter.flush() at the end of the stream
Flush ==
    /\ phase = "feeding"
    /\ LET r == flush(flt, pos) IN
         /\ flt' = Self(r)
         /\ out' = out \o r.output
         /\ outpos' = outpos \o r.outpos
    /\ phase' = "flushed"
    /\ UNCHANGED <<text, pos, passes, svars>>

NextFilter == Feed \/ Flush

SpecFilter == InitFilter /\ [][NextFilter]_vars

\* The ghost positions name the characters emitted
OutposConsistent == out = [i \in 1..Len(outpos) |-> text[outpos[i]]]

\* ------------------------------------------- the filters applied to whole texts

WholeTokens ==
    {OPEN, CLOSE, OPEN \o <<"x">> \o CLOSE, <<"<", "t">>, <<"h", "i", "n", "k", ">">>,
     <<"\n">>, <<" ">>, <<"a">>}

\* Scenario A of the specification: "Hello <think>secret</think> world"
ScenarioA ==
    <<"H", "e", "l", "l", "o", " ">> \o OPEN \o <<"s", "e", "c", "r", "e", "t">>
        \o CLOSE \o <<" ", "w", "o", "r", "l", "d">>

WholeTexts ==
    {Concat(ts) : ts \in UNION {[1..n -> WholeTokens] : n \in 0..MaxTokens}}
        \cup {ScenarioA}

Latest == IF passes = <<>> THEN text ELSE passes[Len(passes)]

InitWhole ==
    /\ text \in WholeTexts
    /\ passes = <<>>
    /\ phase = "whole"
    /\ pos = 0
    /\ flt = NewFilter
    /\ out = <<>>
    /\ outpos = <<>>
    /\ EXPECTED_API_KEY = <<>>
    /\ active = {}
    /\ rq = <<>>

\* strip_think_tags applied to the text, then to its own result
StripPass ==
    /\ phase \in {"whole", "strip"}
    /\ Len(passes) < MaxPasses
    /\ passes' = Append(passes, strip_think_tags(Latest))
    /\ phase' = "strip"
    /\ UNCHANGED <<text, pos, flt, out, outpos, svars>>

\* a fresh streaming filter applied to the text, then to its own result
StreamPass ==
    /\ phase \in {"whole", "stream"}
    /\ Len(passes) < MaxPasses
    /\ passes' = Append(passes, StreamAll(Latest))
    /\ phase' = "stream"
    /\ UNCHANGED <<text, pos, flt, out, outpos, svars>>

NextWhole == StripPass \/ StreamPass

SpecWhole == InitWhole /\ [][NextWhole]_vars

\* ------------------------------------------------------------ configuration

\* MODELS (CONFIG["models"]): two configured models, one filtered.
MODELS ==
    [m \in {"deepseek", "plain"} |->
        [endpoint |-> "https://foundry", deployment |-> m,
         strip_think_tags |-> (m = "deepseek")]]

\* Model ids a client may ask for: the configured ones, one that differs from
\* a configured one in case only, and an unknown one
RequestedModels == {"deepseek", "plain", "DEEPSEEK", "foo"}

\* Authorization headers a client may send, as <<scheme with its space, token>>;
\* <<>> is the absent header.
AuthHeaders ==
    {<<>>, <<"Basic ", "secret">>, <<"Bearer ", "wrong">>, <<"Bearer ", "secret">>}

\* The application a request is sent to: app.py's or main.py's
Apps == {"app", "main"}

Requests == [app : Apps, auth : AuthHeaders, model : RequestedModels, stream : BOOLEAN]

\* Statuses other than 200 the upstream may answer with
UpstreamErrorStatuses == {429, 500}

\* Content deltas an upstream chunk may carry
Deltas == {<<"<">>, <<"t">>, OPEN, CLOSE}

\* Decodable chunks without a content delta: choices[0].delta holds a role,
\* choices[0] holds a finish_reason, or the object has no "choices" key.
MetaKinds == {"role", "finish", "nochoices"}

\* Decodable payloads chunk.get("choices", [{}])[0].get("delta", {}) raises on:
\* a JSON value that is no object, and an object whose "choices" is [].
BadShapeKinds == {"nonobject", "emptychoices"}

\* ------------------------------------------------------------- the request

NewRequest(req) ==
    [request |-> req,
     pc |-> "verify",
     status |-> 0,                 \* HTTP status of the response, 0 while none
     detail |-> <<>>,              \* what the body of a 404 response names
     should_filter |-> FALSE,
     think_filter |-> NewFilter,   \* meaningful only when should_filter
     upstream_calls |-> 0,
     token_calls |-> 0,
     nlines |-> 0,                 \* upstream lines read so far
     last |-> "none",              \* what the upstream did last
     recv |-> <<>>,                \* decoded chunks received, with their line
     fed |-> 0,                    \* characters of content delta received
     sent |-> <<>>]                \* events yielded to the client

\* verify_api_key: the status it raises, 0 when the request may proceed
verify_api_key(key, auth) ==
    IF key = <<>> THEN 500
    ELSE IF ~(Len(auth) >= 1 /\ auth[1] = "Bearer ") THEN 401
    ELSE IF Tail(auth) # key THEN 403
    ELSE 0

\* str.lower() of the scheme of an Authorization header
Lower(scheme) ==
    CASE scheme = "Bearer " -> "bearer "
      [] scheme = "Basic " -> "basic "
      [] OTHER -> scheme

\* main.py's check_openwebui_key: the status it raises, 0 when the request
\* may proceed
check_openwebui_key(key, auth) ==
    IF key = <<>> THEN 0
    ELSE IF ~(Len(auth) >= 1 /\ Lower(auth[1]) = "bearer ") THEN 401
    ELSE IF Tail(auth) # key THEN 403
    ELSE 0

\* main.py's chat_completions after the key check: get_aad_token, then
\* requests.post; an exception of either is not handled (status 500), a
\* response passes its status on.  outcome is "tokenerror", "timeout",
\* "reqerror" or "response".
main_chat_completions(r, outcome, status) ==
    IF outcome = "tokenerror"
    THEN [r EXCEPT !.token_calls = @ + 1, !.pc = "done", !.status = 500]
    ELSE [r EXCEPT !.token_calls = @ + 1,
                   !.upstream_calls = @ + 1,
                   !.pc = "done",
                   !.last = IF outcome = "response" /\ status # 200 THEN "status" ELSE outcome,
                   !.status = IF outcome = "response" THEN status ELSE 500]

\* A variant of model resolution that ignores the case of the id
resolve_model_ignoring_case(r) ==
    LET id == IF r.request.model = "DEEPSEEK" THEN "deepseek" ELSE r.request.model IN
    IF id \notin DOMAIN MODELS
    THEN [r EXCEPT !.pc = "done", !.status = 404,
                   !.detail = <<r.request.model, DOMAIN MODELS>>]
    ELSE [r EXCEPT !.pc = "token", !.should_filter = MODELS[id].strip_think_tags]

\* chat_completions up to model resolution
resolve_model(r) ==
    IF r.request.model \notin DOMAIN MODELS
    THEN [r EXCEPT !.pc = "done", !.status = 404,
                   !.detail = <<r.request.model, DOMAIN MODELS>>]
    ELSE [r EXCEPT !.pc = "token",
                   !.should_filter = MODELS[r.request.model].strip_think_tags]

\* chat_completions from get_entra_token to the handler it returns:
\* _handle_streaming returns the StreamingResponse (status 200) before
\* generate() has run.
acquire_token(r, ok) ==
    IF ~ok
    THEN [r EXCEPT !.token_calls = @ + 1, !.pc = "done", !.status = 502]
    ELSE IF r.request.stream
    THEN [r EXCEPT !.token_calls = @ + 1, !.pc = "connect", !.status = 200]
    ELSE [r EXCEPT !.token_calls = @ + 1, !.pc = "call"]

\* A variant that calls the upstream a second time after a timeout
handle_non_streaming_retry(r, outcome, status) ==
    [r EXCEPT !.upstream_calls = IF outcome = "timeout" THEN @ + 2 ELSE @ + 1,
              !.pc = "done",
              !.last = IF outcome = "response" /\ status # 200 THEN "status" ELSE outcome,
              !.status = CASE outcome = "timeout" -> 504
                           [] outcome = "reqerror" -> 502
                           [] OTHER -> status]

\* A variant whose RequestError clause catches the timeout too
handle_non_streaming_timeout_as_502(r, outcome, status) ==
    [r EXCEPT !.upstream_calls = @ + 1,
              !.pc = "done",
              !.last = IF outcome = "response" /\ status # 200 THEN "status" ELSE outcome,
              !.status = CASE outcome \in {"timeout", "reqerror"} -> 502
                           [] OTHER -> status]

\* _handle_non_streaming; outcome is "timeout", "reqerror" or "response"
handle_non_streaming(r, outcome, status) ==
    [r EXCEPT !.upstream_calls = @ + 1,
              !.pc = "done",
              !.last = IF outcome = "response" /\ status # 200 THEN "status" ELSE outcome,
              !.status = CASE outcome = "timeout" -> 504
                           [] outcome = "reqerror" -> 502
                           [] OTHER -> status]

\* ------------------------------------------------------ _handle_streaming

NoChunk == [kind |-> "", content |-> <<>>, model |-> ""]

\* f"data: {json.dumps(chunk)}\n\n", yielded while upstream line n is handled;
\* pos gives each content character's position among the deltas received.
SseData(n, chunk, p) ==
    [type |-> "data", line |-> n, chunk |-> chunk, pos |-> p, etype |-> ""]

\* f"data: {json.dumps(error_data)}\n\n"
SseError(n, etype) ==
    [type |-> "error", line |-> n, chunk |-> NoChunk, pos |-> <<>>, etype |-> etype]

\* "data: [DONE]\n\n"
SseDone(n) ==
    [type |-> "done", line |-> n, chunk |-> NoChunk, pos |-> <<>>, etype |-> ""]

make_sse_chunk(content, model_id) ==
    [kind |-> "proxy-flush", content |-> content, model |-> model_id]

\* except httpx.TimeoutException, without the terminator
on_timeout_no_done(r) ==
    [r EXCEPT !.last = "timeout", !.pc = "done",
              !.sent = @ \o <<SseError(r.nlines + 1, "timeout")>>]

\* except httpx.TimeoutException
on_timeout(r) ==
    [r EXCEPT !.last = "timeout", !.pc = "done",
              !.sent = @ \o <<SseError(r.nlines + 1, "timeout"), SseDone(r.nlines + 1)>>]

\* except httpx.RequestError
on_request_error(r) ==
    [r EXCEPT !.last = "reqerror", !.pc = "done",
              !.sent = @ \o <<SseError(r.nlines + 1, "connection_error"),
                              SseDone(r.nlines + 1)>>]

\* client.stream(...) answered: status 200 enters the line loop; any other
\* status reads the body (aread is "ok", "timeout" or "reqerror") and ends.
on_response(r, status, aread) ==
    IF status = 200 THEN [r EXCEPT !.upstream_calls = @ + 1, !.pc = "streaming",
                                   !.last = "status200"]
    ELSE LET c == [r EXCEPT !.upstream_calls = @ + 1] IN
         CASE aread = "timeout" -> on_timeout(c)
           [] aread = "reqerror" -> on_request_error(c)
           [] OTHER ->
                [c EXCEPT !.last = "status", !.pc = "done",
                          !.sent = @ \o <<SseError(r.nlines + 1, "upstream_error"),
                                          SseDone(r.nlines + 1)>>]

\* `continue` on a line without "data: " (kind "nondata") or on
\* json.JSONDecodeError (kind "badjson")
on_skipped(r, kind) == [r EXCEPT !.nlines = @ + 1, !.last = kind]

\* chunk.get / [0] raises AttributeError or IndexError: nothing handles it
on_bad_shape(r, kind) == [r EXCEPT !.nlines = @ + 1, !.last = kind, !.pc = "aborted"]

\* A variant that yields the flushed text after the terminator
on_done_flush_after_terminator(r) ==
    LET n == r.nlines + 1
        f == flush(r.think_filter, r.fed)
    IN  [r EXCEPT !.nlines = n, !.last = "done", !.pc = "done",
                  !.think_filter = IF r.should_filter THEN Self(f) ELSE @,
                  !.sent = @ \o <<SseDone(n)>>
                             \o (IF r.should_filter /\ f.output # <<>>
                                 THEN <<SseData(n, make_sse_chunk(f.output, r.request.model),
                                                f.outpos)>>
                                 ELSE <<>>)]

\* payload.strip() == "[DONE]"
on_done(r) ==
    LET n == r.nlines + 1
        f == flush(r.think_filter, r.fed)
    IN  IF r.should_filter
        THEN [r EXCEPT !.nlines = n, !.last = "done", !.pc = "done",
                       !.think_filter = Self(f),
                       !.sent = @ \o (IF f.output # <<>>
                                      THEN <<SseData(n, make_sse_chunk(f.output, r.request.model),
                                                     f.outpos)>>
                                      ELSE <<>>)
                                  \o <<SseDone(n)>>]
        ELSE [r EXCEPT !.nlines = n, !.last = "done", !.pc = "done",
                       !.sent = @ \o <<SseDone(n)>>]

\* `if not delta`: forward the chunk
on_meta(r, kind) ==
    LET n == r.nlines + 1
        chunk == [kind |-> kind, content |-> <<>>, model |-> "upstream"]
    IN  [r EXCEPT !.nlines = n, !.last = kind,
                  !.recv = Append(@, [line |-> n, chunk |-> chunk]),
                  !.sent = Append(@, SseData(n, chunk, <<>>))]

\* A variant that forwards the chunk also when the filtered text is empty
on_content_forward_empty(r, delta) ==
    LET n == r.nlines + 1
        chunk == [kind |-> "content", content |-> delta, model |-> "upstream"]
        f == process_text(r.think_filter, delta, r.fed)
        c == [r EXCEPT !.nlines = n, !.last = "content",
                       !.recv = Append(@, [line |-> n, chunk |-> chunk]),
                       !.fed = @ + Len(delta)]
    IN  IF r.should_filter
        THEN [c EXCEPT !.think_filter = Self(f),
                       !.sent = Append(@, SseData(n, [chunk EXCEPT !.content = f.output],
                                                  f.outpos))]
        ELSE [c EXCEPT !.sent = Append(@, SseData(n, chunk,
                                                  Range(r.fed + 1, r.fed + Len(delta))))]

\* A variant whose filter is one object used by all streams: every call works
\* on the state the object was left in by the stream that has read most
on_content_shared_filter(r, delta) ==
    LET n == r.nlines + 1
        chunk == [kind |-> "content", content |-> delta, model |-> "upstream"]
        owner == CHOOSE o \in active : \A p \in active : rq[p].fed <= rq[o].fed
        f == process_text(rq[owner].think_filter, delta, r.fed)
        c == [r EXCEPT !.nlines = n, !.last = "content",
                       !.recv = Append(@, [line |-> n, chunk |-> chunk]),
                       !.fed = @ + Len(delta)]
    IN  IF r.should_filter
        THEN [c EXCEPT !.think_filter = Self(f),
                       !.sent = IF f.output # <<>>
                                THEN Append(@, SseData(n, [chunk EXCEPT !.content = f.output],
                                                       f.outpos))
                                ELSE @]
        ELSE [c EXCEPT !.sent = Append(@, SseData(n, chunk,
                                                  Range(r.fed + 1, r.fed + Len(delta))))]

\* a chunk with a content delta
on_content(r, delta) ==
    LET n == r.nlines + 1
        chunk == [kind |-> "content", content |-> delta, model |-> "upstream"]
        f == process_text(r.think_filter, delta, r.fed)
        c == [r EXCEPT !.nlines = n, !.last = "content",
                       !.recv = Append(@, [line |-> n, chunk |-> chunk]),
                       !.fed = @ + Len(delta)]
    IN  IF r.should_filter
        THEN [c EXCEPT !.think_filter = Self(f),
                       !.sent = IF f.output # <<>>
                                THEN Append(@, SseData(n, [chunk EXCEPT !.content = f.output],
                                                       f.outpos))
                                ELSE @]
        ELSE [c EXCEPT !.sent = Append(@, SseData(n, chunk,
                                                  Range(r.fed + 1, r.fed + Len(delta))))]

\* aiter_lines() ends without a "[DONE]" line: the loop and generate() end
on_close(r) == [r EXCEPT !.last = "close", !.pc = "done"]

\* ------------------------------------------------------------- actions

Init ==
    /\ EXPECTED_API_KEY \in {<<>>, <<"secret">>}
    /\ active = {1}
    /\ rq \in [active -> {NewRequest(req) : req \in Requests}]
    /\ text = <<>>
    /\ pos = 0
    /\ flt = NewFilter
    /\ out = <<>>
    /\ outpos = <<>>
    /\ phase = "idle"
    /\ passes = <<>>

Step(s, r) == rq' = [rq EXCEPT ![s] = r] /\ UNCHANGED <<fvars, EXPECTED_API_KEY, active>>

Verify(s) ==
    /\ rq[s].request.app = "app"
    /\ rq[s].pc = "verify"
    /\ LET st == verify_api_key(EXPECTED_API_KEY, rq[s].request.auth) IN
       Step(s, IF st = 0 THEN [rq[s] EXCEPT !.pc = "resolve"]
               ELSE [rq[s] EXCEPT !.pc = "done", !.status = st])

\* main.py: check_openwebui_key(request) at the head of chat_completions
MainVerify(s) ==
    /\ rq[s].request.app = "main"
    /\ rq[s].pc = "verify"
    /\ LET st == check_openwebui_key(EXPECTED_API_KEY, rq[s].request.auth) IN
       Step(s, IF st = 0 THEN [rq[s] EXCEPT !.pc = "main_chat"]
               ELSE [rq[s] EXCEPT !.pc = "done", !.status = st])

\* main.py: the rest of chat_completions
MainChat(s) ==
    /\ rq[s].pc = "main_chat"
    /\ \/ \E outcome \in {"tokenerror", "timeout", "reqerror"} :
            Step(s, main_chat_completions(rq[s], outcome, 0))
       \/ \E st \in {200} \cup UpstreamErrorStatuses :
            Step(s, main_chat_completions(rq[s], "response", st))

Resolve(s) ==
    /\ rq[s].pc = "resolve"
    /\ Step(s, resolve_model(rq[s]))

Token(s) ==
    /\ rq[s].pc = "token"
    /\ \E ok \in BOOLEAN : Step(s, acquire_token(rq[s], ok))

Call(s) ==
    /\ rq[s].pc = "call"
    /\ \/ \E outcome \in {"timeout", "reqerror"} : Step(s, handle_non_streaming(rq[s], outcome, 0))
       \/ \E st \in {200} \cup UpstreamErrorStatuses :
            Step(s, handle_non_streaming(rq[s], "response", st))

Connect(s) ==
    /\ rq[s].pc = "connect"
    /\ \/ Step(s, on_timeout([rq[s] EXCEPT !.upstream_calls = @ + 1]))
       \/ Step(s, on_request_error([rq[s] EXCEPT !.upstream_calls = @ + 1]))
       \/ Step(s, on_response(rq[s], 200, "ok"))
       \/ \E st \in UpstreamErrorStatuses, aread \in {"ok", "timeout", "reqerror"} :
            Step(s, on_response(rq[s], st, aread))

Reading(s) == rq[s].pc = "streaming" /\ rq[s].nlines < MaxLines

LineSkipped(s) ==
    /\ Reading(s)
    /\ \E kind \in {"nondata", "badjson"} : Step(s, on_skipped(rq[s], kind))

LineBadShape(s) ==
    /\ rq[s].pc = "streaming"
    /\ \E kind \in BadShapeKinds : Step(s, on_bad_shape(rq[s], kind))

LineMeta(s) ==
    /\ Reading(s)
    /\ \E kind \in MetaKinds : Step(s, on_meta(rq[s], kind))

LineContent(s) ==
    /\ Reading(s)
    /\ \E delta \in Deltas : Step(s, on_content(rq[s], delta))

LineDone(s) ==
    /\ rq[s].pc = "streaming"
    /\ Step(s, on_done(rq[s]))

UpstreamClose(s) ==
    /\ rq[s].pc = "streaming"
    /\ Step(s, on_close(rq[s]))

ReadTimeout(s) ==
    /\ rq[s].pc = "streaming"
    /\ Step(s, on_timeout(rq[s]))

ReadError(s) ==
    /\ rq[s].pc = "streaming"
    /\ Step(s, on_request_error(rq[s]))

Next ==
    \/ \E s \in active : Verify(s)
    \/ \E s \in active : Resolve(s)
    \/ \E s \in active : Token(s)
    \/ \E s \in active : Call(s)
    \/ \E s \in active : Connect(s)
    \/ \E s \in active : UpstreamClose(s)
    \/ \E s \in active : LineDone(s)
    \/ \E s \in active : LineSkipped(s)
    \/ \E s \in active : LineMeta(s)
    \/ \E s \in active : LineContent(s)
    \/ \E s \in active : LineBadShape(s)
    \/ \E s \in active : ReadTimeout(s)
    \/ \E s \in active : ReadError(s)
    \/ \E s \in active : MainVerify(s)
    \/ \E s \in active : MainChat(s)

Spec == Init /\ [][Next]_vars

\* ------------------------------------------------- two streams in flight

\* Two streaming requests for the filtered model, both with the right key
InitTwo ==
    /\ EXPECTED_API_KEY = <<"secret">>
    /\ active = {1, 2}
    /\ rq = [s \in active |->
               NewRequest([app |-> "app", auth |-> <<"Bearer ", "secret">>,
                           model |-> "deepseek", stream |-> TRUE])]
    /\ text = <<>>
    /\ pos = 0
    /\ flt = NewFilter
    /\ out = <<>>
    /\ outpos = <<>>
    /\ phase = "idle"
    /\ passes = <<>>

\* The steps of the two requests in any interleaving; each upstream sends
\* content chunks and the terminator
NextTwo ==
    \/ \E s \in active : Verify(s)
    \/ \E s \in active : Resolve(s)
    \/ \E s \in active : Token(s)
    \/ \E s \in active : Connect(s)
    \/ \E s \in active : rq[s].nlines < MaxStreamLines /\ LineContent(s)
    \/ \E s \in active : LineDone(s)

SpecTwo == InitTwo /\ [][NextTwo]_vars

\* ------------------------------------------------------ claims on the filter

\* The delimiters of s in order of position, "O" for <think> and "C" for
\* </think>, from position i on.
RECURSIVE DelimSeq(_, _)
DelimSeq(s, i) ==
    LET o == Find(s, OPEN, i)
        c == Find(s, CLOSE, i)
    IN  IF o = 0 /\ c = 0 THEN <<>>
        ELSE IF c = 0 \/ (o # 0 /\ o < c) THEN <<"O">> \o DelimSeq(s, o + Len(OPEN))
        ELSE <<"C">> \o DelimSeq(s, c + Len(CLOSE))

\* Every <think> of s is followed by its </think> before the next <think>,
\* and no </think> stands alone.
WellFormed(s) ==
    LET d == DelimSeq(s, 1) IN
    /\ Len(d) % 2 = 0
    /\ \A k \in 1..Len(d) : d[k] = (IF k % 2 = 1 THEN "O" ELSE "C")

\* The positions of s lying strictly between a <think> and the first
\* </think> after it, or after a <think> that is never closed.
RECURSIVE Marked(_, _, _)
Marked(s, i, inside) ==
    LET k == Find(s, IF inside THEN CLOSE ELSE OPEN, i) IN
    IF inside
    THEN IF k = 0 THEN i..Len(s) ELSE (i..(k - 1)) \cup Marked(s, k + Len(CLOSE), FALSE)
    ELSE IF k = 0 THEN {} ELSE Marked(s, k + Len(OPEN), TRUE)

\* C1: once every fragment of a text with well-formed <think>...</think>
\* spans has been fed and the filter flushed, the concatenated output is the
\* text with every smallest <think>...</think> span removed and all else kept.
C1_ChunkedEqualsWhole ==
    (phase = "flushed" /\ WellFormed(Consumed)) => out = THINK_PATTERN_sub(Consumed)

\* C2: no character lying between a <think> and its matching </think> of the
\* input fed so far, or after an unclosed <think>, is in any output of
\* process_text or flush.
C2_NoMarkedCharEmitted ==
    \A k \in 1..Len(outpos) : outpos[k] \notin Marked(Consumed, 1, FALSE)

\* One process_text call on the whole input by a fresh filter
C4_OneCall == process_text(NewFilter, Consumed, 0)

\* C4: however the input was cut into fragments, the concatenated outputs and
\* the state (inside_think, tag_buffer) equal those of one process_text call
\* on the whole input by a fresh filter, before and after flush(); fragments
\* of scenario B emit exactly " answer".
C4_ChunkingInvisible ==
    /\ phase = "feeding" =>
         /\ out = C4_OneCall.output
         /\ flt = Self(C4_OneCall)
    /\ phase = "flushed" =>
         LET f == flush(Self(C4_OneCall), pos) IN
         /\ out = C4_OneCall.output \o f.output
         /\ flt = Self(f)
    /\ (phase = "flushed" /\ Consumed = ScenarioB) =>
         out = <<" ", "a", "n", "s", "w", "e", "r">>

\* C4 witness: scenario B cut as "<th" | "ink>reasoning</thi" | ..., the
\* second fragment fed, a close candidate pending across the cut.
C4_Witness ==
    /\ text = ScenarioB
    /\ phase = "feeding"
    /\ pos = 21
    /\ flt.inside_think
    /\ flt.tag_buffer = <<"<", "/", "t", "h", "i">>

\* C11: a text without a complete <think> passes through unchanged, however
\* it is cut into fragments: the filter is never inside a region, what it has
\* returned plus its pending candidate is the input fed so far, and after
\* flush() the concatenated output equals the input exactly.
C11_NoDelimiterPassesThrough ==
    Find(Consumed, OPEN, 1) = 0 =>
        /\ ~flt.inside_think
        /\ out \o flt.tag_buffer = Consumed
        /\ phase = "flushed" => out = Consumed

\* C11 witness: "< <t" with an ordinary '<' and a pending "<t" at the end,
\* fed and flushed.
C11_Witness ==
    /\ phase = "flushed"
    /\ Consumed = <<"<", " ", "<", "t">>
    /\ out = Consumed

\* p is a prefix of d and shorter than d
IsStrictPrefix(p, d) == Len(p) < Len(d) /\ SubSeq(d, 1, Len(p)) = p

\* C17: after any calls of process_text the pending candidate is a strict
\* prefix of <think> or of </think>, hence never longer than </think>.
C17_CandidateIsStrictPrefix ==
    /\ IsStrictPrefix(flt.tag_buffer, OPEN) \/ IsStrictPrefix(flt.tag_buffer, CLOSE)
    /\ Len(flt.tag_buffer) <= Len(CLOSE)

\* C18: when the filter is inside a region after j characters and the first
\* complete </think> of the input after them has just been fed, the filter is
\* outside with an empty candidate, whatever stood between, in any fragments.
C18_CloseLeavesRegion ==
    phase = "feeding" =>
        \A j \in 0..pos :
            LET before == process_text(NewFilter, SubSeq(text, 1, j), 0)
                c == Find(Consumed, CLOSE, j + 1)
            IN  (before.inside_think /\ c # 0 /\ c + Len(CLOSE) - 1 = pos) =>
                    ~flt.inside_think /\ flt.tag_buffer = <<>>

\* C21: the filter only elides.  Every character returned by process_text or
\* flush is a character of the input fed so far, the characters are returned
\* in input order and none twice, so the output is a subsequence of the
\* input; the pending candidate is the end of the input fed so far, and
\* while it is pending everything returned stands before it, so output plus
\* candidate are never longer than the input fed.
C21_OnlyElides ==
    LET tb == flt.tag_buffer IN
    /\ Len(out) = Len(outpos)
    /\ \A i \in 1..Len(outpos) :
           /\ outpos[i] \in 1..pos
           /\ out[i] = text[outpos[i]]
    /\ \A i, j \in 1..Len(outpos) : i < j => outpos[i] < outpos[j]
    /\ Len(tb) <= pos
    /\ tb = SubSeq(text, pos - Len(tb) + 1, pos)
    /\ \A i \in 1..Len(outpos) : outpos[i] <= pos - Len(tb)
    /\ Len(out) + Len(tb) <= pos

\* C21 witness: "t<think></think><" fed and flushed: "t" and the pending
\* "<" were returned, the first and the last character of the input.
C21_Witness ==
    /\ phase = "flushed"
    /\ Consumed = <<"t">> \o OPEN \o CLOSE \o <<"<">>
    /\ out = <<"t", "<">>
    /\ outpos = <<1, 17>>

\* ------------------------------------------------------ claims on the stream

\* The request is served by app.py
IsApp(r) == r.request.app = "app"

\* The request got a StreamingResponse
IsStream(r) == IsApp(r) /\ r.request.stream /\ r.status = 200

Ended(r) == r.pc \in {"done", "aborted"}

Failures == {"timeout", "reqerror", "status"}

\* The indices of the events of the given type in a sequence of events
EventsOfType(evs, type) == {k \in 1..Len(evs) : evs[k].type = type}

\* The upstream line that delivered character p of the content received
LineOfPos(r, p) ==
    LET RECURSIVE Walk(_, _)
        Walk(k, seen) ==
            IF k > Len(r.recv) THEN 0
            ELSE IF p <= seen + Len(r.recv[k].chunk.content) THEN r.recv[k].line
            ELSE Walk(k + 1, seen + Len(r.recv[k].chunk.content))
    IN  Walk(1, 0)

\* The positions of all content characters forwarded, in the order forwarded
SentPos(r) == Concat([k \in 1..Len(r.sent) |-> r.sent[k].pos])

\* C3: however the upstream stream ends, the streaming response ends with the
\* terminator event, emitted exactly once and with nothing after it.
C3_AlwaysTerminated ==
    \A s \in active :
        LET r == rq[s] IN
        IsStream(r) =>
            /\ \A k \in EventsOfType(r.sent, "done") : k = Len(r.sent)
            /\ Ended(r) => (r.sent # <<>> /\ r.sent[Len(r.sent)].type = "done")

\* C5 (as claimed): text received in upstream event i is never delivered to
\* the client after the event forwarded for a later upstream event j > i.
C5_TextNeverAfterLaterEvent ==
    \A s \in active :
        LET r == rq[s] IN
        \A k, m \in 1..Len(r.sent) :
            k < m => \A x \in 1..Len(r.sent[m].pos) :
                         LineOfPos(r, r.sent[m].pos[x]) >= r.sent[k].line

\* C5 (amended): the events are forwarded in the order of the upstream events
\* that caused them (only the terminator shares its upstream event with the
\* event before it), forwarded text keeps its upstream order, and no event
\* carries text of a later upstream event; text held back as a pending
\* candidate travels with a later content event or with the flush.
C5_EventsInUpstreamOrder ==
    \A s \in active :
        LET r == rq[s]
            sp == SentPos(r)
        IN  /\ \A k, m \in 1..Len(r.sent) :
                   k < m => /\ r.sent[k].line <= r.sent[m].line
                            /\ r.sent[k].line = r.sent[m].line => r.sent[m].type = "done"
            /\ \A x, y \in 1..Len(sp) : x < y => sp[x] < sp[y]
            /\ \A k \in 1..Len(r.sent) : \A x \in 1..Len(r.sent[k].pos) :
                   LineOfPos(r, r.sent[k].pos[x]) \in 1..r.sent[k].line

\* C5 witness: a metadata-only event was forwarded, and the flush then
\* delivered text of an earlier upstream event.
C5_Witness ==
    \E s \in active :
        LET r == rq[s] IN
        /\ r.pc = "done" /\ r.last = "done"
        /\ \E k, m \in 1..Len(r.sent) :
              /\ k < m
              /\ r.sent[k].chunk.kind \in MetaKinds
              /\ r.sent[m].chunk.kind = "proxy-flush"
              /\ LineOfPos(r, r.sent[m].pos[1]) < r.sent[k].line

\* C6: an upstream event without a content delta (role-only, finish-only, no
\* choices, empty choices list) is forwarded unchanged at once, in every
\* filter state, and leaves the filter state unchanged.
C6_MetadataForwarded ==
    [][\A s \in active :
          (rq'[s].nlines = rq[s].nlines + 1
           /\ rq'[s].last \in MetaKinds \cup {"emptychoices"}) =>
              /\ rq'[s].pc = "streaming"
              /\ rq'[s].think_filter = rq[s].think_filter
              /\ rq'[s].sent =
                   Append(rq[s].sent,
                          SseData(rq'[s].nlines,
                                  [kind |-> rq'[s].last, content |-> <<>>,
                                   model |-> "upstream"], <<>>))]_vars

\* C7: a malformed or undecodable upstream unit (a line without "data: ", a
\* payload that is no JSON, a JSON payload that is no chunk object) is
\* skipped: the stream stays in STREAMING, nothing is forwarded for it and
\* the filter state is unchanged.
C7_MalformedSkipped ==
    [][\A s \in active :
          (rq'[s].nlines = rq[s].nlines + 1
           /\ rq'[s].last \in {"nondata", "badjson", "nonobject"}) =>
              /\ rq'[s].pc = "streaming"
              /\ rq'[s].think_filter = rq[s].think_filter
              /\ rq'[s].sent = rq[s].sent]_vars

\* C8: after an upstream failure of a streaming request (timeout, transport
\* error, non-success status) the response holds exactly one error event, of
\* the failure's kind, directly followed by the terminator as the last event,
\* and the generator is done.
ErrorTypeOf(failure) ==
    CASE failure = "timeout" -> "timeout"
      [] failure = "reqerror" -> "connection_error"
      [] failure = "status" -> "upstream_error"

C8_FailureIsErrorThenDone ==
    \A s \in active :
        LET r == rq[s]
            n == Len(r.sent)
        IN  (IsApp(r) /\ r.request.stream /\ r.last \in Failures) =>
                /\ r.pc = "done"
                /\ n >= 2
                /\ r.sent[n].type = "done"
                /\ r.sent[n - 1].type = "error"
                /\ r.sent[n - 1].etype = ErrorTypeOf(r.last)
                /\ EventsOfType(r.sent, "error") = {n - 1}
                /\ EventsOfType(r.sent, "done") = {n}

\* C8 witness: content was forwarded, then the read timed out.
C8_Witness ==
    \E s \in active :
        /\ rq[s].last = "timeout"
        /\ Len(rq[s].sent) = 3
        /\ rq[s].sent[1].chunk.kind = "content"

\* C9 (as claimed): an upstream failure before anything was sent to the
\* client gives an HTTP error status (504, 502 or the upstream's), in
\* streaming and in non-streaming mode; an error event is sent only after
\* streaming has begun.
C9_EarlyFailureIsHttpError ==
    \A s \in active :
        LET r == rq[s] IN
        (IsApp(r) /\ r.last \in Failures /\ EventsOfType(r.sent, "data") = {}) =>
            /\ r.status \in {504, 502} \cup UpstreamErrorStatuses
            /\ EventsOfType(r.sent, "error") = {}

\* C9 (amended): in non-streaming mode an upstream failure gives the HTTP
\* status 504 (timeout), 502 (transport error) or the upstream's status and
\* no event; in streaming mode the response already has status 200 when the
\* upstream is called, and every upstream failure, also one before any event
\* was forwarded, is an error event in the stream.
C9_HttpErrorOnlyNonStreaming ==
    \A s \in active :
        LET r == rq[s] IN
        (IsApp(r) /\ r.last \in Failures) =>
            IF r.request.stream
            THEN r.status = 200 /\ EventsOfType(r.sent, "error") # {}
            ELSE /\ r.sent = <<>>
                 /\ r.last = "timeout" => r.status = 504
                 /\ r.last = "reqerror" => r.status = 502
                 /\ r.last = "status" => r.status \in UpstreamErrorStatuses

\* C9 witness: a streaming request whose upstream call timed out before any
\* event was forwarded.
C9_Witness ==
    \E s \in active :
        /\ rq[s].request.stream
        /\ rq[s].last = "timeout"
        /\ rq[s].nlines = 0
        /\ Len(rq[s].sent) = 2

\* C9 witness of the other mode: a non-streaming request whose call timed out
C9_WitnessNonStreaming ==
    \E s \in active : IsApp(rq[s]) /\ ~rq[s].request.stream /\ rq[s].last = "timeout"

\* All content deltas a stream has received, concatenated
Received(r) == Concat([k \in 1..Len(r.recv) |-> r.recv[k].chunk.content])

\* C12: when the upstream terminator arrives while the filter is inside an
\* unclosed region, flush() returns nothing: the response ends with the
\* terminator, no synthesized content event is sent, the pending close
\* candidate stays unsent in the filter, and the text forwarded is what
\* process_text had returned before.
C12_UnclosedRegionDropped ==
    \A s \in active :
        LET r == rq[s]
            n == Len(r.sent)
            one == process_text(NewFilter, Received(r), 0)
        IN  (r.should_filter /\ r.last = "done" /\ r.think_filter.inside_think) =>
                /\ r.pc = "done"
                /\ r.sent[n].type = "done"
                /\ \A k \in 1..n : r.sent[k].chunk.kind # "proxy-flush"
                /\ r.think_filter = Self(one)
                /\ SentPos(r) = one.outpos

\* C12 witness: "t", then <think>, then "<" were received and the terminator
\* came: "t" was forwarded, the region and the candidate "<" were not.
C12_Witness ==
    \E s \in active :
        /\ rq[s].last = "done"
        /\ rq[s].think_filter.inside_think
        /\ rq[s].think_filter.tag_buffer = <<"<">>
        /\ Received(rq[s]) = <<"t">> \o OPEN \o <<"<">>
        /\ Len(rq[s].sent) = 2

\* get_entra_token raised: the request ended with 502 before any upstream call
TokenFailed(r) == r.pc = "done" /\ r.status = 502 /\ r.last = "none"

\* The request passed authentication, model resolution and token acquisition
Passed(r) ==
    /\ verify_api_key(EXPECTED_API_KEY, r.request.auth) = 0
    /\ r.request.model \in DOMAIN MODELS
    /\ r.token_calls = 1
    /\ ~TokenFailed(r)

\* C13: a chat request of app.py never causes more than one upstream call; a
\* call is made only for a request that passed authentication, model
\* resolution and token acquisition, and once the request has ended, in
\* streaming or non-streaming mode, with success or failure, such a request
\* has caused exactly one call and every other request none.
C13_OneUpstreamCall ==
    \A s \in active :
        LET r == rq[s] IN
        IsApp(r) =>
            /\ r.upstream_calls <= 1
            /\ r.token_calls <= 1
            /\ r.upstream_calls = 1 => Passed(r)
            /\ Ended(r) => r.upstream_calls = (IF Passed(r) THEN 1 ELSE 0)

\* C13 witness: a streaming request whose connection broke after a line was
\* read ended with one upstream call.
C13_Witness ==
    \E s \in active :
        /\ IsApp(rq[s])
        /\ rq[s].pc = "done"
        /\ rq[s].last = "reqerror"
        /\ rq[s].nlines >= 1
        /\ rq[s].upstream_calls = 1

\* C14: an authenticated chat request of app.py whose model id is not exactly
\* a configured id is rejected with 404, the body naming the requested id and
\* all configured ids, before any token acquisition or upstream call; a
\* request whose model id is configured gets no 404 from model resolution.
C14_UnknownModelIs404 ==
    \A s \in active :
        LET r == rq[s] IN
        (IsApp(r) /\ r.pc \notin {"verify", "resolve"}
                  /\ verify_api_key(EXPECTED_API_KEY, r.request.auth) = 0) =>
            IF r.request.model \in DOMAIN MODELS
            THEN r.status # 404 /\ r.detail = <<>>
            ELSE /\ r.pc = "done"
                 /\ r.status = 404
                 /\ r.detail = <<r.request.model, DOMAIN MODELS>>
                 /\ r.token_calls = 0
                 /\ r.upstream_calls = 0

\* C14 witness: the id "DEEPSEEK", which differs from a configured id in case
\* only, was rejected with 404.
C14_Witness ==
    \E s \in active :
        /\ IsApp(rq[s])
        /\ rq[s].request.model = "DEEPSEEK"
        /\ rq[s].status = 404
        /\ rq[s].detail = <<"DEEPSEEK", {"deepseek", "plain"}>>

\* The status the authentication check is to respond with, 0 to proceed
ClaimedAuthStatus(key, auth) ==
    IF key = <<>> THEN 500
    ELSE IF auth = <<>> \/ auth[1] # "Bearer " THEN 401
    ELSE IF Tail(auth) # key THEN 403
    ELSE 0

\* C15: on the bearer-authenticated endpoints of app.py and of main.py the
\* authentication check ends the request with 500 if no secret is configured,
\* 401 if the header is absent or not "Bearer <token>", 403 if the token
\* differs from the secret, before anything else is done; only a request
\* whose token equals the secret proceeds.
C15_AuthCheckStatuses ==
    \A s \in active :
        LET r == rq[s]
            c == ClaimedAuthStatus(EXPECTED_API_KEY, r.request.auth)
        IN  r.pc # "verify" =>
                IF c # 0
                THEN r.pc = "done" /\ r.status = c /\ r.token_calls = 0
                ELSE ~(r.token_calls = 0 /\ r.status \in {401, 403, 500})

\* The text of all content events forwarded, synthesized ones included
ForwardedText(r) ==
    Concat([k \in 1..Len(r.sent) |->
               IF r.sent[k].chunk.kind \in {"content", "proxy-flush"}
               THEN r.sent[k].chunk.content ELSE <<>>])

\* C19: with filtering enabled the text of the content events forwarded is
\* what process_text returns on the deltas received, and once the terminator
\* has come, that followed by what flush() returns; every content event
\* carries non-empty text in the envelope of the upstream event that caused
\* it, one event at most per upstream event; flushed text travels in one
\* synthesized event directly before the terminator.
C19_ForwardedIsFilterOutput ==
    \A s \in active :
        LET r == rq[s]
            n == Len(r.sent)
            one == process_text(NewFilter, Received(r), 0)
            fl == flush(Self(one), r.fed)
        IN  (IsStream(r) /\ r.should_filter /\ r.last \notin Failures) =>
                /\ ForwardedText(r) =
                       IF r.last = "done" THEN one.output \o fl.output ELSE one.output
                /\ r.last = "done" => ForwardedText(r) = StreamAll(Received(r))
                /\ \A k \in 1..n :
                       r.sent[k].chunk.kind = "content" =>
                           /\ r.sent[k].chunk.content # <<>>
                           /\ r.sent[k].chunk.model = "upstream"
                           /\ \E m \in 1..Len(r.recv) :
                                  /\ r.recv[m].line = r.sent[k].line
                                  /\ r.recv[m].chunk.kind = "content"
                           /\ \A m \in 1..n :
                                  (m # k /\ r.sent[m].line = r.sent[k].line) =>
                                      r.sent[m].type = "done"
                /\ \A k \in 1..n :
                       r.sent[k].chunk.kind = "proxy-flush" =>
                           /\ r.last = "done"
                           /\ k = n - 1
                           /\ r.sent[n].type = "done"
                           /\ r.sent[k].chunk = make_sse_chunk(fl.output, r.request.model)
                           /\ fl.output # <<>>
                /\ (r.last = "done" /\ fl.output # <<>>) =>
                       (n >= 2 /\ r.sent[n - 1].chunk.kind = "proxy-flush")

\* C19 witness: "t" was forwarded, "<" was held back (nothing forwarded for
\* it) and came in the synthesized event before the terminator.
C19_Witness ==
    \E s \in active :
        /\ rq[s].should_filter
        /\ rq[s].last = "done"
        /\ rq[s].nlines = 3
        /\ Received(rq[s]) = <<"t", "<">>
        /\ Len(rq[s].sent) = 3
        /\ rq[s].sent[1].chunk.kind = "content"
        /\ rq[s].sent[2].chunk.kind = "proxy-flush"

\* What a stream forwards and the filter it is left with when it runs alone
\* and receives r.recv[k..]: f is the filter, fed the number of characters
\* received and evs the events forwarded before.
RECURSIVE Alone(_, _, _, _, _)
Alone(r, k, f, fed, evs) ==
    IF k > Len(r.recv)
    THEN IF r.last = "done"
         THEN LET fl == flush(f, fed) IN
              [think_filter |-> Self(fl),
               sent |-> evs \o (IF fl.output # <<>>
                                THEN <<SseData(r.nlines, make_sse_chunk(fl.output, r.request.model),
                                               fl.outpos)>>
                                ELSE <<>>)
                            \o <<SseDone(r.nlines)>>]
         ELSE [think_filter |-> f, sent |-> evs]
    ELSE LET chunk == r.recv[k].chunk
             o == process_text(f, chunk.content, fed)
         IN  Alone(r, k + 1, Self(o), fed + Len(chunk.content),
                   IF o.output # <<>>
                   THEN Append(evs, SseData(r.recv[k].line,
                                            [chunk EXCEPT !.content = o.output], o.outpos))
                   ELSE evs)

\* C20: with two streams in flight and their upstream chunks handled in any
\* interleaving, each stream's filter is the one its own deltas alone lead
\* to, and the events forwarded on it are those it produces running alone.
C20_StreamsIndependent ==
    \A s \in active :
        LET r == rq[s]
            a == Alone(r, 1, NewFilter, 0, <<>>)
        IN  r.last \in {"status200", "content", "done"} =>
                /\ r.think_filter = a.think_filter
                /\ r.sent = a.sent

\* C20 witness: both streams are being read, one inside a region with a
\* close candidate pending, the other outside and forwarding.
C20_Witness ==
    /\ active = {1, 2}
    /\ rq[1].pc = "streaming" /\ rq[2].pc = "streaming"
    /\ rq[1].think_filter.inside_think
    /\ rq[1].think_filter.tag_buffer = <<"<">>
    /\ ~rq[2].think_filter.inside_think
    /\ rq[2].nlines = 2
    /\ Len(rq[2].sent) = 2

\* ------------------------------------------------- claims on whole texts

\* s holds a complete <think>...</think> span
HasSpan(s) ==
    \E i \in 1..Len(s) : OccursAt(s, OPEN, i) /\ Find(s, CLOSE, i + Len(OPEN)) # 0

\* The positions of s from i on that lie in a smallest <think>...</think>
\* span, delimiters included; spans are taken from the left and do not overlap.
RECURSIVE Spans(_, _)
Spans(s, i) ==
    LET o == Find(s, OPEN, i)
        c == IF o = 0 THEN 0 ELSE Find(s, CLOSE, o + Len(OPEN))
    IN  IF c = 0 THEN {} ELSE (o..(c + Len(CLOSE) - 1)) \cup Spans(s, c + Len(CLOSE))

\* The characters of s that are no whitespace
Solid(s) == LET IsSolid(c) == c \notin Whitespace IN SelectSeq(s, IsSolid)

C10_Idempotent ==
    \A k \in 1..(Len(passes) - 1) : passes[k + 1] = passes[k]

\* C10 (amended): the streaming filter applied to its own complete output
\* returns it unchanged for every text; strip_think_tags applied to its own
\* result returns it unchanged for every text whose span removal leaves no
\* complete <think>...</think> span behind.
C10_IdempotentUnlessSpliced ==
    (phase = "stream" \/ ~HasSpan(PatternSub(text, 1))) =>
        \A k \in 1..(Len(passes) - 1) : passes[k + 1] = passes[k]

\* C10 witness: strip_think_tags removed a span and cleaned whitespace up,
\* and was applied again.
C10_Witness ==
    /\ phase = "strip"
    /\ Len(passes) = 2
    /\ HasSpan(text)
    /\ ~HasSpan(PatternSub(text, 1))
    /\ passes[1] # PatternSub(text, 1)

====
